---- MODULE Spec2Model ----
(***************************************************************************)
(* A state-machine model of moodle2polygon.py: the export reader           *)
(* (parse_moodle_xml), the text classifier (extract_text_sections,         *)
(* _select_checker) and the remote workflow (main, create_polygon_problem, *)
(* wait_for_package).                                                      *)
(*                                                                         *)
(* Strings are sequences of characters; a character is a one-character     *)
(* string, and a Cyrillic letter is written "#" followed by its Latin      *)
(* transliteration ("#v" for the letter ve, "#V" for its capital).         *)
(***************************************************************************)
EXTENDS Integers, Sequences, FiniteSets, TLC

\* ------------------------------------------------------------------ bounds

\* Questions in the export document.
MaxQuestions == 2
\* <testcase> entries of one question.
MaxTestEntries == 2
\* Packages in one problem.packages result (SpecWait).
MaxPackages == 2
\* Polls of one wait that the remote answers with any package list; a build
\* still unfinished after them hangs (SpecWait; see HungLists).
MaxBuildPolls == 2
\* Seconds by which the sleeps of a wait overshoot time.sleep(2) (SpecWait).
MaxDrift == 1
\* Lines of the text given to extract_text_sections (SpecText).
MaxLines == 4
\* Characters of the first test's output_data (SpecChecker).
MaxOutLen == 4

\* ------------------------------------------------------- program constants

\* wait_for_package(..., timeout: int = 300)
Timeout == 300
\* time.sleep(2)
SleepSeconds == 2

VARIABLES
    config_ok,    \* input: parse_config returns (TRUE) or raises (FALSE)
    document,     \* input: the <question> entries of the export, in order
    pc,           \* position of the process
    tasks,        \* main: tasks
    index,        \* main: index of the task being created (1-based)
    test_pos,     \* create_polygon_problem: position of the for loop over task.tests
    problem_id,   \* create_polygon_problem: problem_id
    created_ids,  \* main: created_ids
    calls,        \* history: every api.request issued, in order
    response,     \* the value the last api.request returned
    now,          \* _now()
    deadline,     \* wait_for_package: deadline
    polls,        \* remote: polls answered in the current wait
    poll_time,    \* the "time" parameter of the last problem.packages request
    drift,        \* seconds of overshoot used so far
    stdout,       \* ids printed
    stderr,       \* the diagnostic printed before sys.exit(1)
    exit_status,  \* process exit status (-1 while running)
    text,         \* input of extract_text_sections: the text once the markup is removed
    sections,     \* what extract_text_sections returned
    normalized_legend,  \* what _normalize_whitespace returned for sections.legend
    outputs,      \* input of _select_checker: output_data of each of task.tests
    checker       \* what _select_checker returned

mainVars == <<config_ok, document, pc, tasks, index, test_pos, problem_id, created_ids,
              calls, response, now, deadline, polls, poll_time, drift, stdout, stderr,
              exit_status>>

classVars == <<text, sections, normalized_legend, outputs, checker>>

vars == <<mainVars, classVars>>

\* ------------------------------------------------------------------ inputs

RECURSIVE SeqsUpTo(_, _)
SeqsUpTo(S, n) ==
    IF n = 0 THEN {<<>>}
    ELSE LET shorter == SeqsUpTo(S, n - 1)
         IN  shorter \cup {Append(s, x) : s \in shorter, x \in S}

\* A <testcase>: whether it holds stdin/text and expected/text.
TestEntries == [has_stdin : BOOLEAN, has_expected : BOOLEAN]

CompleteEntry == [has_stdin |-> TRUE, has_expected |-> TRUE]

\* A <question>: its type attribute, which of name/text, questiontext/text and
\* answer it holds, and its testcases.
QuestionOf(qtype, n, b, a, tcs) ==
    [qtype |-> qtype, has_name |-> n, has_text |-> b, has_answer |-> a, testcases |-> tcs]

Questions(entries) ==
    {QuestionOf("category", FALSE, FALSE, FALSE, <<>>),
     QuestionOf("coderunner", FALSE, TRUE, TRUE, <<CompleteEntry>>),
     QuestionOf("coderunner", TRUE, FALSE, TRUE, <<CompleteEntry>>),
     QuestionOf("coderunner", TRUE, TRUE, FALSE, <<CompleteEntry>>)}
    \cup {QuestionOf("coderunner", TRUE, TRUE, TRUE, tcs) :
            tcs \in SeqsUpTo(entries, MaxTestEntries)}

Documents(entries) == SeqsUpTo(Questions(entries), MaxQuestions)

\* ------------------------------------------------------- parse_moodle_xml

\* for idx, testcase in enumerate(findall("testcases/testcase"), start=1)
RECURSIVE ParseTests(_, _)
ParseTests(entries, idx) ==
    IF entries = <<>> THEN <<>>
    ELSE LET e == Head(entries)
             rest == ParseTests(Tail(entries), idx + 1)
         IN  IF ~e.has_stdin \/ ~e.has_expected
             THEN rest
             ELSE <<[index |-> idx]>> \o rest

\* Mutant of Malformed: the check of answer_node is forgotten.
MalformedIgnoringAnswer(q) == ~q.has_name \/ ~q.has_text

\* if name_node is None or questiontext_node is None or answer_node is None
Malformed(q) == ~q.has_name \/ ~q.has_text \/ ~q.has_answer

\* The loop over root.findall("question"): [ok, tasks]; ok is FALSE when the
\* ValueError of line 283 is raised.
RECURSIVE ParseQuestions(_, _)
ParseQuestions(qs, acc) ==
    IF qs = <<>> THEN [ok |-> TRUE, tasks |-> acc]
    ELSE LET q == Head(qs)
         IN  IF q.qtype # "coderunner" THEN ParseQuestions(Tail(qs), acc)
             ELSE IF Malformed(q) THEN [ok |-> FALSE, tasks |-> <<>>]
             ELSE ParseQuestions(Tail(qs),
                                 Append(acc, [tests |-> ParseTests(q.testcases, 1)]))

parse_moodle_xml(doc) == ParseQuestions(doc, <<>>)

\* ------------------------------------------------------------- the remote

Null == [t |-> "null"]

\* JSON values problem.create may return: null, an object with or without an
\* "id", a list of up to two elements, each an object (with or without an id) or
\* a scalar.
Elements(id) ==
    {[t |-> "dict", has_id |-> TRUE, id |-> id],
     [t |-> "dict", has_id |-> FALSE, id |-> 0],
     [t |-> "scalar", has_id |-> FALSE, id |-> 0]}

CreateResults(id) ==
    {Null} \cup Elements(id)
    \cup {[t |-> "list", items |-> s] : s \in SeqsUpTo(Elements(id), 2)}

PackageStates == {"READY", "FAILED", "RUNNING"}

\* The creationTimeSeconds of the packages: an older and a newer build.
CreationTimes == {1, 2}

Packages == [creationTimeSeconds : CreationTimes, state : PackageStates]

PackageLists == SeqsUpTo(Packages, MaxPackages)

\* What the remote answers while a build hangs: no package yet, or one package
\* that stays in a state other than READY and FAILED.
HungLists == {<<>>, <<[creationTimeSeconds |-> 1, state |-> "RUNNING"]>>}

\* What the remote answers for a problem whose only package is the one being
\* built.
FreshLists == {<<>>} \cup {<<[creationTimeSeconds |-> 1, state |-> st]>> : st \in PackageStates}

\* ------------------------------------------------ create_polygon_problem

\* isinstance(problem, dict) and "id" in problem
IsDictWithId(v) == v.t = "dict" /\ v.has_id

\* Mutant of IsListWithId: only a list of exactly one element is taken.
IsSingletonListWithId(v) == v.t = "list" /\ Len(v.items) = 1 /\ IsDictWithId(v.items[1])

\* isinstance(problem, list) and problem and isinstance(problem[0], dict)
\* and "id" in problem[0]
IsListWithId(v) == v.t = "list" /\ v.items # <<>> /\ IsDictWithId(v.items[1])

HasProblemId(v) == IsDictWithId(v) \/ IsListWithId(v)

ProblemIdOf(v) == IF IsDictWithId(v) THEN v.id ELSE v.items[1].id

\* The requests that follow problem.create, in program order.
Method(step) ==
    CASE step = "create" -> "problem.create"
      [] step = "updateInfo" -> "problem.updateInfo"
      [] step = "saveStatement" -> "problem.saveStatement"
      [] step = "setChecker" -> "problem.setChecker"
      [] step = "saveSolution" -> "problem.saveSolution"
      [] step = "saveTest" -> "problem.saveTest"
      [] step = "commitChanges" -> "problem.commitChanges"
      [] step = "buildPackage" -> "problem.buildPackage"
      [] step = "wait" -> "problem.packages"

\* Mutant of StepAfter: the solution is not saved before the tests.
StepAfterSkippingSolution(step) ==
    CASE step = "create" -> "updateInfo"
      [] step = "updateInfo" -> "saveStatement"
      [] step = "saveStatement" -> "setChecker"
      [] step = "setChecker" -> "saveTest"
      [] step = "saveSolution" -> "saveTest"
      [] step = "saveTest" -> "commitChanges"
      [] step = "commitChanges" -> "buildPackage"
      [] step = "buildPackage" -> "wait"

StepAfter(step) ==
    CASE step = "create" -> "updateInfo"
      [] step = "updateInfo" -> "saveStatement"
      [] step = "saveStatement" -> "setChecker"
      [] step = "setChecker" -> "saveSolution"
      [] step = "saveSolution" -> "saveTest"
      [] step = "saveTest" -> "commitChanges"
      [] step = "commitChanges" -> "buildPackage"
      [] step = "buildPackage" -> "wait"

\* A request as the remote sees it: its method, the task whose problem code or
\* problem id it carries, and its testIndex (0 when it has none).
Call(method, testIndex) == [method |-> method, task |-> index, testIndex |-> testIndex]

\* ------------------------------------------------------- wait_for_package

\* Mutant of Latest: the last package listed is taken for the latest.
LastListed(packages) == packages[Len(packages)]

\* max(packages, key=lambda pkg: pkg.get("creationTimeSeconds", 0)): the first
\* of the packages with the largest key.
Latest(packages) ==
    LET i == CHOOSE i \in 1..Len(packages) :
                 /\ \A j \in 1..Len(packages) :
                        packages[j].creationTimeSeconds <= packages[i].creationTimeSeconds
                 /\ \A j \in 1..(i - 1) :
                        packages[j].creationTimeSeconds < packages[i].creationTimeSeconds
    IN  packages[i]

\* What one iteration of the loop does with the packages it got.
PollOutcome(packages) ==
    IF packages = <<>> THEN "sleep"
    ELSE LET state == Latest(packages).state
         IN  IF state = "READY" THEN "return"
             ELSE IF state = "FAILED" THEN "raise"
             ELSE "sleep"

\* Mutant of BeforeDeadline: the loop still runs at the deadline.
UpToDeadline(t, d) == t <= d

\* while _now() < deadline
BeforeDeadline(t, d) == t < d

\* ------------------------------------------------------------------ strings

\* str.isspace() on the characters of the model
IsSpace(c) == c \in {" ", "\t", "\n"}

Digits == {"4"}

\* str.lower(), on the capitals of the model
LowerChar(c) ==
    CASE c = "I" -> "i"
      [] c = "O" -> "o"
      [] c = "U" -> "u"
      [] c = "T" -> "t"
      [] c = "P" -> "p"
      [] c = "#V" -> "#v"
      [] OTHER -> c

Lower(s) == [i \in 1..Len(s) |-> LowerChar(s[i])]

\* s.startswith(prefix)
StartsWith(s, prefix) == Len(s) >= Len(prefix) /\ SubSeq(s, 1, Len(prefix)) = prefix

\* sub in s
Contains(s, sub) ==
    \E i \in 1..(Len(s) - Len(sub) + 1) : SubSeq(s, i, i + Len(sub) - 1) = sub

\* s.lstrip()
RECURSIVE LStrip(_)
LStrip(s) == IF s # <<>> /\ IsSpace(Head(s)) THEN LStrip(Tail(s)) ELSE s

\* s.rstrip()
RECURSIVE RStrip(_)
RStrip(s) ==
    IF s # <<>> /\ IsSpace(s[Len(s)]) THEN RStrip(SubSeq(s, 1, Len(s) - 1)) ELSE s

\* s.strip()
Strip(s) == RStrip(LStrip(s))

\* text.splitlines(): the lines between the line breaks; a trailing line break
\* opens no further line.
RECURSIVE SplitLines(_, _)
SplitLines(s, cur) ==
    IF s = <<>> THEN (IF cur = <<>> THEN <<>> ELSE <<cur>>)
    ELSE IF Head(s) = "\n" THEN <<cur>> \o SplitLines(Tail(s), <<>>)
    ELSE SplitLines(Tail(s), Append(cur, Head(s)))

\* sep.join(lines)
RECURSIVE Join(_, _)
Join(lines, sep) ==
    IF lines = <<>> THEN <<>>
    ELSE IF Len(lines) = 1 THEN lines[1]
    ELSE lines[1] \o sep \o Join(Tail(lines), sep)

\* ---------------------------------------------------- extract_text_sections

\* The words the marker rules look for, in lower case: the Russian stems for
\* "input", "given" and "output", and the English words.
StemInput == <<"#v", "#h", "#o", "#d">>

StemGiven == <<"#d", "#a", "#n">>

StemOutput == <<"#v", "#y", "#h", "#o", "#d">>

WordInput == <<"i", "n", "p", "u", "t">>

WordOutput == <<"o", "u", "t", "p", "u", "t">>

\* The two placeholders, each written as one symbol.
InputPlaceholder == <<"[Vhodnye dannye otsutstvuyut]">>

OutputPlaceholder == <<"[Vyhodnye dannye otsutstvuyut]">>

\* lines 173 and 176, on normalized = line.lower()
IsInputMarker(normalized) ==
    \/ StartsWith(normalized, StemInput) /\ Contains(normalized, StemGiven)
    \/ StartsWith(normalized, WordInput)

\* lines 179 and 182
IsOutputMarker(normalized) ==
    \/ StartsWith(normalized, StemOutput) /\ Contains(normalized, StemGiven)
    \/ StartsWith(normalized, WordOutput)

\* [line.strip() for line in ...], without the lines left empty
RECURSIVE StripLines(_)
StripLines(lines) ==
    IF lines = <<>> THEN <<>>
    ELSE LET line == Strip(Head(lines))
         IN  (IF line = <<>> THEN <<>> ELSE <<line>>) \o StripLines(Tail(lines))

\* lines, as the loop finds it
TrimmedLines(t) == StripLines(SplitLines(t, <<>>))

\* Mutant of Route: a marker line moves the cursor and is kept as content.
RECURSIVE RouteKeepingMarkers(_, _, _)
RouteKeepingMarkers(lines, current, bufs) ==
    IF lines = <<>> THEN bufs
    ELSE LET line == Head(lines)
             normalized == Lower(line)
             cursor == IF IsInputMarker(normalized) THEN "input"
                       ELSE IF IsOutputMarker(normalized) THEN "output"
                       ELSE current
         IN  RouteKeepingMarkers(Tail(lines), cursor,
                                 [bufs EXCEPT ![cursor] = Append(@, line)])

\* for line in lines: the cursor moves on a marker line, every other line is
\* appended to the list the cursor names.
RECURSIVE Route(_, _, _)
Route(lines, current, bufs) ==
    IF lines = <<>> THEN bufs
    ELSE LET line == Head(lines)
             normalized == Lower(line)
         IN  IF IsInputMarker(normalized) THEN Route(Tail(lines), "input", bufs)
             ELSE IF IsOutputMarker(normalized) THEN Route(Tail(lines), "output", bufs)
             ELSE Route(Tail(lines), current, [bufs EXCEPT ![current] = Append(@, line)])

\* extract_text_sections, from the text the markup was removed from
extract_text_sections(t) ==
    LET bufs == Route(TrimmedLines(t), "legend",
                      [legend |-> <<>>, input |-> <<>>, output |-> <<>>])
    IN  [legend |-> IF bufs.legend # <<>> THEN Join(bufs.legend, <<"\n", "\n">>) ELSE <<>>,
         input_format |-> IF bufs.input # <<>> THEN Join(bufs.input, <<"\n">>)
                          ELSE InputPlaceholder,
         output_format |-> IF bufs.output # <<>> THEN Join(bufs.output, <<"\n">>)
                           ELSE OutputPlaceholder]

\* re.sub(r"\s+", " ", ...): every run of whitespace becomes one space
RECURSIVE CollapseSpaces(_)
CollapseSpaces(s) ==
    IF s = <<>> THEN <<>>
    ELSE IF IsSpace(Head(s))
         THEN <<" ">> \o CollapseSpaces(LStrip(s))
         ELSE <<Head(s)>> \o CollapseSpaces(Tail(s))

\* Mutant of _normalize_whitespace: the value is stripped and its inner
\* whitespace kept.
StripOnly(value) == Strip(value)

_normalize_whitespace(value) == CollapseSpaces(Strip(value))

\* ------------------------------------------------------------ _select_checker

\* stripped = value.lstrip(); stripped.split(None, 1)[0], or "" when empty
_extract_first_word(value) ==
    LET stripped == LStrip(value)
        ends == {i \in 1..Len(stripped) : IsSpace(stripped[i])}
    IN  IF stripped = <<>> THEN <<>>
        ELSE IF ends = {} THEN stripped
        ELSE SubSeq(stripped, 1, (CHOOSE i \in ends : \A j \in ends : i <= j) - 1)

AllDigits(s) == \A i \in 1..Len(s) : s[i] \in Digits

\* Mutant of _is_integer_token: the sign is not allowed.
IsUnsignedIntegerToken(token) == token # <<>> /\ AllDigits(token)

\* re.fullmatch(r"[+-]?\d+", token)
_is_integer_token(token) ==
    /\ token # <<>>
    /\ LET digits == IF Head(token) \in {"+", "-"} THEN Tail(token) ELSE token
       IN  digits # <<>> /\ AllDigits(digits)

\* float(token) raises no ValueError: an optional sign, digits with an optional
\* point or a point followed by digits, and an optional exponent of "e" or "E",
\* an optional sign and digits.  (The forms float() takes besides, "inf",
\* "nan" and digits grouped by "_", need characters the model does not draw.)
ParsesAsFloat(token) ==
    \E m \in 1..Len(token) :
        LET mantissa == SubSeq(token, 1, m)
            exponent == SubSeq(token, m + 1, Len(token))
            unsigned == IF Head(mantissa) \in {"+", "-"} THEN Tail(mantissa) ELSE mantissa
            points == {i \in 1..Len(unsigned) : unsigned[i] = "."}
        IN  /\ unsigned # <<>>
            /\ \A i \in 1..Len(unsigned) : unsigned[i] \in Digits \cup {"."}
            /\ Cardinality(points) <= 1
            /\ \E i \in 1..Len(unsigned) : unsigned[i] \in Digits
            /\ \/ exponent = <<>>
               \/ /\ Head(exponent) \in {"e", "E"}
                  /\ LET power == Tail(exponent)
                         digits == IF power # <<>> /\ Head(power) \in {"+", "-"}
                                   THEN Tail(power) ELSE power
                     IN  digits # <<>> /\ AllDigits(digits)

\* _is_float_token
_is_float_token(token) ==
    IF token = <<>> \/ _is_integer_token(token) THEN FALSE
    ELSE IF ~ParsesAsFloat(token) THEN FALSE
    ELSE /\ \E i \in 1..Len(token) : token[i] \in Digits
         /\ \E i \in 1..Len(token) : token[i] \in {".", "e", "E"}

\* _select_checker, on the output_data of the task's tests
_select_checker(outs) ==
    IF outs = <<>> THEN "std::lcmp.cpp"
    ELSE LET first_word == _extract_first_word(outs[1])
         IN  IF first_word = <<>> THEN "std::lcmp.cpp"
             ELSE IF _is_integer_token(first_word) THEN "std::ncmp.cpp"
             ELSE IF _is_float_token(first_word) THEN "std::rcmp9.cpp"
             ELSE "std::lcmp.cpp"

\* --------------------------------------------------------------------- main

\* The classifier is not running.
ClassIdle ==
    /\ text = <<>>
    /\ sections = <<>>
    /\ normalized_legend = <<>>
    /\ outputs = <<>>
    /\ checker = ""

Init ==
    /\ ClassIdle
    /\ config_ok \in BOOLEAN
    /\ document \in Documents({CompleteEntry})
    /\ pc = "config"
    /\ tasks = <<>>
    /\ index = 0
    /\ test_pos = 0
    /\ problem_id = 0
    /\ created_ids = <<>>
    /\ calls = <<>>
    /\ response = Null
    /\ now = 0
    /\ deadline = 0
    /\ polls = 0
    /\ poll_time = -1
    /\ drift = 0
    /\ stdout = <<>>
    /\ stderr = ""
    /\ exit_status = -1

\* print(..., file=sys.stderr); sys.exit(1)
Exit1(msg) ==
    /\ pc' = "exit"
    /\ stderr' = msg
    /\ exit_status' = 1

\* Mutant of TaskFailed: the error is printed and the loop goes on to the next
\* task.
TaskFailedContinues(msg) ==
    /\ stderr' = msg
    /\ IF index < Len(tasks)
       THEN pc' = "create" /\ index' = index + 1
       ELSE pc' = "print" /\ UNCHANGED index
    /\ UNCHANGED <<created_ids, exit_status>>

\* except Exception in the loop over the tasks: the task's error is printed and
\* the process exits.
TaskFailed(msg) ==
    /\ Exit1(msg)
    /\ UNCHANGED <<index, created_ids>>

\* try: parse_config(args.config) except Exception: ... sys.exit(1)
ParseConfig ==
    /\ pc = "config"
    /\ IF config_ok
       THEN pc' = "parse" /\ UNCHANGED <<stderr, exit_status>>
       ELSE Exit1("Failed to read configuration")
    /\ UNCHANGED <<config_ok, document, tasks, index, test_pos, problem_id, created_ids,
                   calls, response, now, deadline, polls, drift, stdout, poll_time>>
    /\ UNCHANGED classVars

\* parse_moodle_xml raises: "Failed to parse Moodle export", exit 1
ParseFails ==
    /\ pc = "parse"
    /\ ~parse_moodle_xml(document).ok
    /\ Exit1("Failed to parse Moodle export")
    /\ UNCHANGED <<config_ok, document, tasks, index, test_pos, problem_id, created_ids,
                   calls, response, now, deadline, polls, drift, stdout, poll_time>>
    /\ UNCHANGED classVars

\* if not tasks: "No CodeRunner tasks found", exit 1
NoTasks ==
    /\ pc = "parse"
    /\ parse_moodle_xml(document).ok
    /\ parse_moodle_xml(document).tasks = <<>>
    /\ Exit1("No CodeRunner tasks found in the provided XML.")
    /\ UNCHANGED <<config_ok, document, tasks, index, test_pos, problem_id, created_ids,
                   calls, response, now, deadline, polls, drift, stdout, poll_time>>
    /\ UNCHANGED classVars

\* The tasks are parsed and the loop over them starts with the first.
ParseOk ==
    /\ pc = "parse"
    /\ parse_moodle_xml(document).ok
    /\ parse_moodle_xml(document).tasks # <<>>
    /\ tasks' = parse_moodle_xml(document).tasks
    /\ index' = 1
    /\ pc' = "create"
    /\ UNCHANGED <<config_ok, document, test_pos, problem_id, created_ids, calls, response,
                   now, deadline, polls, drift, stdout, stderr, exit_status, poll_time>>
    /\ UNCHANGED classVars

\* problem = api.request("problem.create", ...) and the extraction of the id.
\* The remote numbers the problems it creates 1, 2, ...
CreateProblem ==
    /\ pc = "create"
    /\ calls' = Append(calls, Call(Method("create"), 0))
    /\ \/ /\ TaskFailed("api error")
          /\ UNCHANGED <<response, problem_id>>
       \/ \E result \in CreateResults(index) :
            /\ response' = result
            /\ IF HasProblemId(result)
               THEN /\ problem_id' = ProblemIdOf(result)
                    /\ pc' = StepAfter("create")
                    /\ UNCHANGED <<index, created_ids, stderr, exit_status>>
               ELSE /\ TaskFailed("Unexpected response from problem.create")
                    /\ UNCHANGED problem_id
    /\ UNCHANGED <<config_ok, document, tasks, test_pos, now, deadline, polls, drift, stdout, poll_time>>
    /\ UNCHANGED classVars

\* One of the requests whose result is not used: updateInfo, saveStatement,
\* setChecker, saveSolution; the for loop over task.tests starts after the last.
SimpleRequest(step) ==
    /\ pc = step
    /\ calls' = Append(calls, Call(Method(step), 0))
    /\ \/ /\ TaskFailed("api error")
          /\ UNCHANGED <<response, test_pos>>
       \/ /\ response' = Null
          /\ pc' = StepAfter(step)
          /\ test_pos' = IF StepAfter(step) = "saveTest" THEN 1 ELSE test_pos
          /\ UNCHANGED <<index, created_ids, stderr, exit_status>>
    /\ UNCHANGED <<config_ok, document, tasks, problem_id, now, deadline, polls, drift, stdout, poll_time>>
    /\ UNCHANGED classVars

UpdateInfo == SimpleRequest("updateInfo")

SaveStatement == SimpleRequest("saveStatement")

SetChecker == SimpleRequest("setChecker")

SaveSolution == SimpleRequest("saveSolution")

\* for test in task.tests: api.request("problem.saveTest", ...)
SaveTest ==
    /\ pc = "saveTest"
    /\ test_pos <= Len(tasks[index].tests)
    /\ calls' = Append(calls, Call(Method("saveTest"), tasks[index].tests[test_pos].index))
    /\ \/ /\ TaskFailed("api error")
          /\ UNCHANGED <<response, test_pos>>
       \/ /\ response' = Null
          /\ test_pos' = test_pos + 1
          /\ UNCHANGED <<pc, index, created_ids, stderr, exit_status>>
    /\ UNCHANGED <<config_ok, document, tasks, problem_id, now, deadline, polls, drift, stdout, poll_time>>
    /\ UNCHANGED classVars

\* api.request("problem.commitChanges", ...), once the loop over the tests ended
CommitChanges ==
    /\ pc = "saveTest"
    /\ test_pos > Len(tasks[index].tests)
    /\ calls' = Append(calls, Call(Method("commitChanges"), 0))
    /\ \/ /\ TaskFailed("api error")
          /\ UNCHANGED response
       \/ /\ response' = Null
          /\ pc' = StepAfter("commitChanges")
          /\ UNCHANGED <<index, created_ids, stderr, exit_status>>
    /\ UNCHANGED <<config_ok, document, tasks, test_pos, problem_id, now, deadline, polls,
                   drift, stdout, poll_time>>
    /\ UNCHANGED classVars

\* api.request("problem.buildPackage", ...); wait_for_package is entered:
\* deadline = _now() + timeout
BuildPackage ==
    /\ pc = "buildPackage"
    /\ calls' = Append(calls, Call(Method("buildPackage"), 0))
    /\ \/ /\ TaskFailed("api error")
          /\ UNCHANGED <<response, deadline, polls, poll_time>>
       \/ /\ response' = Null
          /\ deadline' = now + Timeout
          /\ polls' = 0
          /\ poll_time' = -1
          /\ pc' = StepAfter("buildPackage")
          /\ UNCHANGED <<index, created_ids, stderr, exit_status>>
    /\ UNCHANGED <<config_ok, document, tasks, test_pos, problem_id, now, drift, stdout>>
    /\ UNCHANGED classVars

\* time.sleep(2): the clock advances by two seconds, or by more while the
\* overshoot so far is below maxDrift
Sleep(maxDrift) ==
    \E d \in 0..(maxDrift - drift) :
        /\ now' = now + SleepSeconds + d
        /\ drift' = drift + d

\* One iteration of the loop of wait_for_package: the request, and what follows
\* from its result.  The remote answers the first buildPolls polls of a wait
\* with any of lists, and the later ones as for a build that hangs.
WaitPoll(lists, buildPolls, maxDrift) ==
    /\ pc = "wait"
    /\ BeforeDeadline(now, deadline)
    /\ calls' = Append(calls, Call(Method("wait"), 0))
    /\ polls' = polls + 1
    /\ poll_time' = now
    /\ \/ /\ TaskFailed("api error")
          /\ UNCHANGED <<response, now, drift>>
       \/ \E packages \in (IF polls < buildPolls THEN lists ELSE HungLists) :
            /\ response' = [t |-> "list", items |-> packages]
            /\ CASE PollOutcome(packages) = "return" ->
                      /\ pc' = "return"
                      /\ UNCHANGED <<index, created_ids, stderr, exit_status, now, drift>>
                 [] PollOutcome(packages) = "raise" ->
                      /\ TaskFailed("Package build failed")
                      /\ UNCHANGED <<now, drift>>
                 [] PollOutcome(packages) = "sleep" ->
                      /\ Sleep(maxDrift)
                      /\ UNCHANGED <<pc, index, created_ids, stderr, exit_status>>
    /\ UNCHANGED <<config_ok, document, tasks, test_pos, problem_id, deadline, stdout>>
    /\ UNCHANGED classVars

\* The loop ends without a return: raise PolygonAPIError("Timeout ...")
WaitTimeout ==
    /\ pc = "wait"
    /\ ~BeforeDeadline(now, deadline)
    /\ TaskFailed("Timeout while waiting for package build")
    /\ UNCHANGED <<config_ok, document, tasks, test_pos, problem_id, calls, response, now,
                   deadline, polls, drift, stdout, poll_time>>
    /\ UNCHANGED classVars

\* return problem_id; created_ids.append(problem_id); the next task, if any
TaskCreated ==
    /\ pc = "return"
    /\ created_ids' = Append(created_ids, problem_id)
    /\ IF index < Len(tasks)
       THEN index' = index + 1 /\ pc' = "create"
       ELSE pc' = "print" /\ UNCHANGED index
    /\ UNCHANGED <<config_ok, document, tasks, test_pos, problem_id, calls, response, now,
                   deadline, polls, drift, stdout, stderr, exit_status, poll_time>>
    /\ UNCHANGED classVars

\* for pid in created_ids: print(pid); the process ends with status 0
PrintIds ==
    /\ pc = "print"
    /\ stdout' = created_ids
    /\ pc' = "exit"
    /\ exit_status' = 0
    /\ UNCHANGED <<config_ok, document, tasks, index, test_pos, problem_id, created_ids,
                   calls, response, now, deadline, polls, drift, stderr, poll_time>>
    /\ UNCHANGED classVars

Next ==
    \/ ParseConfig
    \/ ParseFails
    \/ NoTasks
    \/ ParseOk
    \/ CreateProblem
    \/ UpdateInfo
    \/ SaveStatement
    \/ SetChecker
    \/ SaveSolution
    \/ SaveTest
    \/ CommitChanges
    \/ BuildPackage
    \/ WaitPoll(FreshLists, 1, 0)
    \/ WaitTimeout
    \/ TaskCreated
    \/ PrintIds

Spec == Init /\ [][Next]_vars


\* ---------------------------------------------- wait_for_package, any remote

\* wait_for_package has just been entered for the only task of a one-question
\* document: the state of Spec after the requests up to problem.buildPackage.
WaitDocument == <<QuestionOf("coderunner", TRUE, TRUE, TRUE, <<CompleteEntry>>)>>

WaitCalls ==
    LET c(m, ti) == [method |-> m, task |-> 1, testIndex |-> ti]
    IN  <<c("problem.create", 0), c("problem.updateInfo", 0), c("problem.saveStatement", 0),
          c("problem.setChecker", 0), c("problem.saveSolution", 0), c("problem.saveTest", 1),
          c("problem.commitChanges", 0), c("problem.buildPackage", 0)>>

InitWait ==
    /\ ClassIdle
    /\ config_ok = TRUE
    /\ document = WaitDocument
    /\ pc = "wait"
    /\ tasks = parse_moodle_xml(WaitDocument).tasks
    /\ index = 1
    /\ test_pos = 2
    /\ problem_id = 1
    /\ created_ids = <<>>
    /\ calls = WaitCalls
    /\ response = Null
    /\ now = 0
    /\ deadline = Timeout
    /\ polls = 0
    /\ poll_time = -1
    /\ drift = 0
    /\ stdout = <<>>
    /\ stderr = ""
    /\ exit_status = -1

NextWait ==
    \/ WaitPoll(PackageLists, MaxBuildPolls, MaxDrift)
    \/ WaitTimeout
    \/ TaskCreated
    \/ PrintIds

SpecWait == InitWait /\ [][NextWait]_vars

\* The process is sequential and every request returns or raises: a step that
\* can be taken is taken.
LiveSpecWait == SpecWait /\ WF_vars(NextWait)

\* ------------------------------------------------------ the export reader

InitParse ==
    /\ ClassIdle
    /\ config_ok \in BOOLEAN
    /\ document \in Documents(TestEntries)
    /\ pc = "config"
    /\ tasks = <<>>
    /\ index = 0
    /\ test_pos = 0
    /\ problem_id = 0
    /\ created_ids = <<>>
    /\ calls = <<>>
    /\ response = Null
    /\ now = 0
    /\ deadline = 0
    /\ polls = 0
    /\ poll_time = -1
    /\ drift = 0
    /\ stdout = <<>>
    /\ stderr = ""
    /\ exit_status = -1

NextParse ==
    \/ ParseConfig
    \/ ParseFails
    \/ NoTasks
    \/ ParseOk

SpecParse == InitParse /\ [][NextParse]_vars

\* ------------------------------------------------------ the text classifier

\* The lines a text is made of: plain content, content with blanks around and
\* inside, each of the four marker forms, a line that starts like a marker and
\* is none, and the empty line.
TextLines ==
    { <<"a">>,
      <<" ", "b", " ", " ", "c", "\t">>,
      <<"I", "n", "p", "u", "t", ":">>,
      <<"O", "U", "T", "P", "U", "T">>,
      <<"#V", "#h", "#o", "#d", " ", "#d", "#a", "#n">>,
      <<"#V", "#y", "#h", "#o", "#d", "#d", "#a", "#n">>,
      <<"#V", "#h", "#o", "#d">>,
      <<>> }


\* No part of main runs.
MainIdle ==
    /\ config_ok = TRUE
    /\ document = <<>>
    /\ tasks = <<>>
    /\ index = 0
    /\ test_pos = 0
    /\ problem_id = 0
    /\ created_ids = <<>>
    /\ calls = <<>>
    /\ response = Null
    /\ now = 0
    /\ deadline = 0
    /\ polls = 0
    /\ poll_time = -1
    /\ drift = 0
    /\ stdout = <<>>
    /\ stderr = ""
    /\ exit_status = -1

InitText ==
    /\ MainIdle
    /\ pc = "extract"
    /\ \E n \in 0..MaxLines : \E lines \in [1..n -> TextLines] : text = Join(lines, <<"\n">>)
    /\ sections = <<>>
    /\ normalized_legend = <<>>
    /\ outputs = <<>>
    /\ checker = ""

\* legend, input_format, output_format = extract_text_sections(...)
ExtractTextSections ==
    /\ pc = "extract"
    /\ sections' = extract_text_sections(text)
    /\ pc' = "extracted"
    /\ UNCHANGED <<config_ok, document, tasks, index, test_pos, problem_id, created_ids,
                   calls, response, now, deadline, polls, poll_time, drift, stdout,
                   stderr, exit_status, text, normalized_legend, outputs, checker>>

\* _normalize_whitespace(legend)
NormalizeLegend ==
    /\ pc = "extracted"
    /\ normalized_legend' = _normalize_whitespace(sections.legend)
    /\ pc' = "normalized"
    /\ UNCHANGED <<config_ok, document, tasks, index, test_pos, problem_id, created_ids,
                   calls, response, now, deadline, polls, poll_time, drift, stdout,
                   stderr, exit_status, text, sections, outputs, checker>>

NextText ==
    \/ ExtractTextSections
    \/ NormalizeLegend

SpecText == InitText /\ [][NextText]_vars

\* ----------------------------------------------------- the checker selector

OutputChars == {"4", "+", "-", ".", "e", "E", "h", " "}

\* output_data of a test after the first
LaterOutputs == {<<"4">>, <<"4", ".", "4">>, <<"h">>}

\* output_data of the tests of a task: of no test, of one, or of two
OutputLists(first) == {<<>>, <<first>>} \cup {<<first, later>> : later \in LaterOutputs}

InitChecker ==
    /\ MainIdle
    /\ pc = "select"
    /\ \E n \in 0..MaxOutLen : \E first \in [1..n -> OutputChars] : outputs \in OutputLists(first)
    /\ checker = ""
    /\ text = <<>>
    /\ sections = <<>>
    /\ normalized_legend = <<>>

\* checker = _select_checker(task)
SelectChecker ==
    /\ pc = "select"
    /\ checker' = _select_checker(outputs)
    /\ pc' = "selected"
    /\ UNCHANGED <<config_ok, document, tasks, index, test_pos, problem_id, created_ids,
                   calls, response, now, deadline, polls, poll_time, drift, stdout,
                   stderr, exit_status, text, sections, normalized_legend, outputs>>

NextChecker == SelectChecker

SpecChecker == InitChecker /\ [][NextChecker]_vars

\* ------------------------------------------------------------------ claims

Last(s) == s[Len(s)]

\* The requests of the tasks before task k, and of task k.
CallsBefore(k) == Cardinality({i \in 1..Len(calls) : calls[i].task < k})

NumCalls(k) == Cardinality({i \in 1..Len(calls) : calls[i].task = k})

NumTests(k) == Len(tasks[k].tests)

\* The i-th request of the workflow of task k, as section 4.3 orders them.
WorkflowMethod(k, i) ==
    IF i = 1 THEN "problem.create"
    ELSE IF i = 2 THEN "problem.updateInfo"
    ELSE IF i = 3 THEN "problem.saveStatement"
    ELSE IF i = 4 THEN "problem.setChecker"
    ELSE IF i = 5 THEN "problem.saveSolution"
    ELSE IF i <= 5 + NumTests(k) THEN "problem.saveTest"
    ELSE IF i = 6 + NumTests(k) THEN "problem.commitChanges"
    ELSE IF i = 7 + NumTests(k) THEN "problem.buildPackage"
    ELSE "problem.packages"

WorkflowTestIndex(k, i) ==
    IF 5 < i /\ i <= 5 + NumTests(k) THEN tasks[k].tests[i - 5].index ELSE 0

SomePackage(packages, st) == \E i \in 1..Len(packages) : packages[i].state = st

\* C1: the requests of every task are, in order, problem.create, updateInfo,
\* saveStatement, setChecker, saveSolution, one saveTest per TestCase in the
\* task's test order, commitChanges, buildPackage and then only
\* problem.packages polls; the tasks' workflows follow one another; a problem id
\* is returned only after a poll that reported READY, and for a task with one
\* test whose first poll reports READY the workflow is exactly 9 requests.
C1_WorkflowOrder ==
    /\ \A i \in 1..(Len(calls) - 1) : calls[i].task <= calls[i + 1].task
    /\ \A i \in 1..Len(calls) : calls[i].task \in 1..index
    /\ \A k \in 1..index :
         LET before == CallsBefore(k)
         IN  \A i \in (before + 1)..Len(calls) :
                calls[i].task = k =>
                    /\ calls[i].method = WorkflowMethod(k, i - before)
                    /\ calls[i].testIndex = WorkflowTestIndex(k, i - before)
    /\ Len(created_ids) \in {index - 1, index}
    /\ pc = "return" =>
         /\ Last(calls).method = "problem.packages"
         /\ Last(calls).task = index
         /\ SomePackage(response.items, "READY")
         /\ Len(created_ids) = index - 1
    /\ \A k \in 1..Len(created_ids) :
         /\ NumCalls(k) >= 8 + NumTests(k)
         /\ created_ids[k] = k
    /\ (pc = "return" /\ NumTests(index) = 1 /\ polls = 1) => NumCalls(index) = 9

\* A task with one test returns its id after exactly 9 requests.
C1_Witness ==
    /\ pc = "return"
    /\ index = 2
    /\ NumTests(1) = 2
    /\ NumTests(2) = 1
    /\ NumCalls(2) = 9

\* C2: once a remote call failed the process has stopped with status 1 and has
\* printed no id, whatever tasks were created before; no request belongs to a
\* later task than the one that failed and none is repeated; ids are printed,
\* one per task in input order, only when every task was created.
C2_AllOrNothing ==
    /\ stderr # "" => pc = "exit" /\ exit_status = 1 /\ stdout = <<>>
    /\ pc = "exit" => (exit_status = 1 <=> stderr # "") /\ exit_status \in {0, 1}
    /\ pc # "exit" => exit_status = -1 /\ stdout = <<>>
    /\ (pc = "exit" /\ exit_status = 1 /\ calls # <<>>) =>
         /\ Last(calls).task = index
         /\ Len(created_ids) = index - 1
    /\ \A i \in 1..(Len(calls) - 1) :
         calls[i] = calls[i + 1] => calls[i].method = "problem.packages"
    /\ (pc = "exit" /\ exit_status = 0) =>
         /\ stdout = created_ids
         /\ Len(stdout) = Len(tasks)
         /\ \A k \in 1..Len(stdout) : stdout[k] = k

\* The second task fails after the first was created: nothing is printed.
C2_Witness ==
    /\ pc = "exit"
    /\ exit_status = 1
    /\ created_ids = <<1>>
    /\ index = 2
    /\ stdout = <<>>
    /\ Last(calls).method = "problem.saveTest"

\* The set of the packages created last.
Newest(packages) ==
    {packages[i] : i \in {i \in 1..Len(packages) :
        \A j \in 1..Len(packages) :
            packages[j].creationTimeSeconds <= packages[i].creationTimeSeconds}}

\* The last poll returned, and response holds its packages.
Polled == polls > 0 /\ stderr # "api error"

WaitEndedOk == pc \in {"return", "print"} \/ (pc = "exit" /\ exit_status = 0)

WaitRaisedFailed == pc = "exit" /\ exit_status = 1 /\ stderr = "Package build failed"

WaitGoesOn == pc = "wait" \/ stderr = "Timeout while waiting for package build"

\* C3: what follows a poll is decided by the packages created last: an empty
\* list keeps waiting, READY ends the wait with no further poll, FAILED raises,
\* any other state keeps waiting; the state of an older package never ends the
\* wait.
C3_LatestDecides ==
    Polled =>
      /\ response.items = <<>> => WaitGoesOn
      /\ (\A p \in Newest(response.items) : p.state = "READY") /\ response.items # <<>> => WaitEndedOk
      /\ (\A p \in Newest(response.items) : p.state = "FAILED") /\ response.items # <<>>
            => WaitRaisedFailed
      /\ (\A p \in Newest(response.items) : p.state \notin {"READY", "FAILED"}) => WaitGoesOn
      /\ WaitEndedOk => \E p \in Newest(response.items) : p.state = "READY"
      /\ WaitRaisedFailed => \E p \in Newest(response.items) : p.state = "FAILED"
      /\ (WaitEndedOk \/ WaitRaisedFailed) => Len(calls) = Len(WaitCalls) + polls

\* An older READY package is listed after the running one: the wait goes on.
C3_Witness ==
    /\ Polled
    /\ pc = "wait"
    /\ response.items = <<[creationTimeSeconds |-> 2, state |-> "RUNNING"],
                    [creationTimeSeconds |-> 1, state |-> "READY"]>>

\* No poll is issued at or after the deadline; a wait that saw neither READY
\* nor FAILED nor a failed request ends with the timeout error at or after
\* start + 300 seconds, and the process exits with status 1 and prints no id.
TimeoutOnlyAtDeadline ==
    /\ poll_time < deadline
    /\ stderr = "Timeout while waiting for package build" =>
         /\ now >= deadline
         /\ deadline = Timeout
         /\ pc = "exit"
         /\ exit_status = 1
         /\ stdout = <<>>
         /\ created_ids = <<>>
    /\ (pc = "exit" /\ Polled /\ ~SomePackage(response.items, "READY")
          /\ ~SomePackage(response.items, "FAILED")) =>
         stderr = "Timeout while waiting for package build"
    /\ (pc = "exit" /\ polls = 0) => stderr = "Timeout while waiting for package build"

\* C4: while the latest package never reports READY or FAILED and the clock
\* advances, wait_for_package terminates: no poll is issued at or after the
\* deadline of start + 300 seconds, the wait fails with the timeout error, and
\* the process exits with status 1 and prints no id.
C4_WaitTerminates == [](TimeoutOnlyAtDeadline) /\ <>(pc = "exit")

\* The wait timed out after polls that never saw READY or FAILED.
C4_Witness ==
    /\ pc = "exit"
    /\ stderr = "Timeout while waiting for package build"
    /\ polls > MaxBuildPolls
    /\ now > deadline

\* C5 (as stated): the TestCase records of every task have the indices 1, 2,
\* ..., n in order, whatever test entries were left out.
C5_ContiguousIndices ==
    \A k \in 1..Len(tasks) :
        \A i \in 1..Len(tasks[k].tests) : tasks[k].tests[i].index = i

\* problem.create has just returned, and response holds its result.
JustCreated ==
    /\ calls # <<>>
    /\ Last(calls).method = "problem.create"
    /\ stderr # "api error"

CreatedId(v) == IF v.t = "dict" THEN v.id ELSE v.items[1].id

CreateOutcome(accepted) ==
    JustCreated =>
        IF accepted
        THEN pc = "updateInfo" /\ problem_id = CreatedId(response)
        ELSE /\ pc = "exit"
             /\ exit_status = 1
             /\ stderr = "Unexpected response from problem.create"

\* C6 (as stated): the id is taken when the result is an object with an id or a
\* list of exactly one object with an id; every other shape fails.
C6_OnlyOneObject ==
    CreateOutcome(\/ response.t = "dict" /\ response.has_id
                  \/ /\ response.t = "list"
                     /\ Len(response.items) = 1
                     /\ response.items[1].t = "dict"
                     /\ response.items[1].has_id)

\* C6 (amended): the id is taken when the result is an object with an id or a
\* non-empty list whose first element is an object with an id, whatever
\* follows it; every other shape fails and no request follows.
C6_FirstObject ==
    CreateOutcome(\/ response.t = "dict" /\ response.has_id
                  \/ /\ response.t = "list"
                     /\ Len(response.items) >= 1
                     /\ response.items[1].t = "dict"
                     /\ response.items[1].has_id)

\* A list of two elements was accepted for its first.
C6_Witness ==
    /\ JustCreated
    /\ response.t = "list"
    /\ Len(response.items) = 2
    /\ pc = "updateInfo"
    /\ problem_id = index

TaskEntryLacksField(q) ==
    q.qtype = "coderunner" /\ (~q.has_name \/ ~q.has_text \/ ~q.has_answer)

HasMalformedEntry == \E i \in 1..Len(document) : TaskEntryLacksField(document[i])

HasNoTaskEntry == \A i \in 1..Len(document) : document[i].qtype # "coderunner"

\* C7: when a task entry lacks a name, a body or a reference solution, when the
\* configuration cannot be loaded or when the document holds no task, no
\* request is ever issued and the process exits with status 1; a malformed
\* entry is reported as a parse error even after valid entries.
C7_NoCallBeforeParse ==
    /\ (~config_ok \/ HasMalformedEntry \/ HasNoTaskEntry) =>
         /\ calls = <<>>
         /\ pc \in {"config", "parse", "exit"}
         /\ pc = "exit" => exit_status = 1 /\ stdout = <<>>
    /\ (~config_ok /\ pc = "exit") => stderr = "Failed to read configuration"
    /\ (config_ok /\ HasMalformedEntry /\ pc = "exit") =>
         stderr = "Failed to parse Moodle export"
    /\ (config_ok /\ ~HasMalformedEntry /\ HasNoTaskEntry /\ pc = "exit") =>
         stderr = "No CodeRunner tasks found in the provided XML."

\* A malformed entry after a valid one: the run ends with the parse error.
C7_Witness ==
    /\ pc = "exit"
    /\ stderr = "Failed to parse Moodle export"
    /\ Len(document) = 2
    /\ ~TaskEntryLacksField(document[1])
    /\ document[1].qtype = "coderunner"
    /\ ~document[2].has_answer

\* ----------------------------------------------------------------- C8

\* The position of the last marker line among the first i lines, 0 if none.
LastMarker(lines, i) ==
    LET markers == {j \in 1..i : IsInputMarker(Lower(lines[j])) \/ IsOutputMarker(Lower(lines[j]))}
    IN  IF markers = {} THEN 0 ELSE CHOOSE j \in markers : \A m \in markers : m <= j

\* The section line i of lines belongs to: the one its nearest marker at or
\* before it names, the legend before any marker.
SectionOf(lines, i) ==
    IF LastMarker(lines, i) = 0 THEN "legend"
    ELSE IF IsInputMarker(Lower(lines[LastMarker(lines, i)])) THEN "input"
    ELSE "output"

\* The lines of a section, in order: those that belong to it and are not the
\* marker themselves.
RECURSIVE SectionLines(_, _, _)
SectionLines(lines, sec, i) ==
    IF i > Len(lines) THEN <<>>
    ELSE IF SectionOf(lines, i) = sec /\ LastMarker(lines, i) # i
         THEN <<lines[i]>> \o SectionLines(lines, sec, i + 1)
         ELSE SectionLines(lines, sec, i + 1)

\* C8: extract_text_sections routes the non-empty trimmed lines of the text:
\* the lines before the first marker make the legend, joined by a blank line;
\* a line matching a marker rule is dropped and moves the cursor; the lines
\* under an input marker make the input format and those under an output
\* marker the output format, joined by a line break; a section with no line
\* gives its placeholder.
C8_SectionRouting ==
    pc \in {"extracted", "normalized"} =>
        LET lines == TrimmedLines(text)
            legend == SectionLines(lines, "legend", 1)
            input == SectionLines(lines, "input", 1)
            output == SectionLines(lines, "output", 1)
        IN  /\ sections.legend = Join(legend, <<"\n", "\n">>)
            /\ sections.input_format =
                   (IF input = <<>> THEN InputPlaceholder ELSE Join(input, <<"\n">>))
            /\ sections.output_format =
                   (IF output = <<>> THEN OutputPlaceholder ELSE Join(output, <<"\n">>))

\* A text of an input marker, a line, an output marker and a line was
\* classified: the input format is the line between the markers, the output
\* format the line after the output marker, and the legend, with no line before
\* the first marker, is empty.
C8_Witness ==
    /\ pc = "extracted"
    /\ text = <<"I", "n", "p", "u", "t", ":", "\n", " ", "b", " ", " ", "c", "\t", "\n",
                "O", "U", "T", "P", "U", "T", "\n", "a">>
    /\ sections = [legend |-> <<>>,
                   input_format |-> <<"b", " ", " ", "c">>,
                   output_format |-> <<"a">>]

\* ----------------------------------------------------------------- C10

\* C10 as stated: normalizing the whitespace of the legend that
\* extract_text_sections returned gives the same legend back.
C10_LegendUnchanged ==
    pc = "normalized" => normalized_legend = sections.legend

\* The legend is one paragraph whose words are separated by single spaces.
SingleSpaced(legend) ==
    /\ \A i \in 1..Len(legend) : legend[i] \notin {"\n", "\t"}
    /\ \A i \in 1..(Len(legend) - 1) : ~(legend[i] = " " /\ legend[i + 1] = " ")

\* C10, amended: normalizing the whitespace of the legend gives the same
\* legend back exactly when the legend is one paragraph whose words are
\* separated by single spaces; of a legend of several paragraphs, or with a
\* run of inner whitespace, it gives a different string, which has no line
\* break and no run of whitespace left.
C10_LegendUnchangedIffSingleSpaced ==
    pc = "normalized" =>
        /\ (normalized_legend = sections.legend) <=> SingleSpaced(sections.legend)
        /\ SingleSpaced(normalized_legend)

\* A legend of two paragraphs was normalized and came out on one line.
C10_Witness ==
    /\ pc = "normalized"
    /\ sections.legend = <<"a", "\n", "\n", "a">>
    /\ normalized_legend = <<"a", " ", "a">>

\* ----------------------------------------------------------------- C9

\* The first whitespace-separated token of value, told from value alone: the
\* characters from the first non-blank one up to the next blank or the end.
FirstToken(value) ==
    LET starts == {i \in 1..Len(value) : ~IsSpace(value[i])}
    IN  IF starts = {} THEN <<>>
        ELSE LET from == CHOOSE i \in starts : \A j \in starts : i <= j
                 to == CHOOSE j \in from..Len(value) :
                           /\ \A m \in from..j : ~IsSpace(value[m])
                           /\ j = Len(value) \/ IsSpace(value[j + 1])
             IN  SubSeq(value, from, to)

HasDigit(token) == \E i \in 1..Len(token) : token[i] \in Digits

\* An optional sign followed only by digits.
SignedDigits(token) ==
    \E digits \in {token} \cup {Tail(token) : sign \in {s \in {"+", "-"} : token # <<>> /\ token[1] = s}} :
        digits # <<>> /\ \A i \in 1..Len(digits) : digits[i] \in Digits

\* C9: _select_checker looks at the first whitespace-separated token of the
\* first test's expected output only: the integer comparator when it is an
\* optional sign followed only by digits; the floating-point comparator when
\* it is not that, parses as a float and holds a digit and one of ".", "e",
\* "E"; the line comparator otherwise, and when the task has no tests or the
\* output no token.
C9_CheckerByFirstToken ==
    pc = "selected" =>
        checker =
            IF outputs = <<>> \/ FirstToken(outputs[1]) = <<>> THEN "std::lcmp.cpp"
            ELSE IF SignedDigits(FirstToken(outputs[1])) THEN "std::ncmp.cpp"
            ELSE IF /\ ParsesAsFloat(FirstToken(outputs[1]))
                    /\ HasDigit(FirstToken(outputs[1]))
                    /\ \E i \in 1..Len(FirstToken(outputs[1])) :
                           FirstToken(outputs[1])[i] \in {".", "e", "E"}
                 THEN "std::rcmp9.cpp"
            ELSE "std::lcmp.cpp"

\* The first output starts with a blank and a signed integer, a word follows
\* it and the second test's output is a float: the integer comparator was
\* selected.
C9_Witness ==
    /\ pc = "selected"
    /\ outputs = << <<" ", "-", "4", " ">>, <<"4", ".", "4">> >>
    /\ checker = "std::ncmp.cpp"

====
